---- MODULE Spec2Model ----
(***************************************************************************)
(* Model of calculate_lcoe (src/lcoe_script.py): the levelized cost of     *)
(* energy of a PV system.  The function is executed statement by           *)
(* statement; a second call, differing from the first in one argument,     *)
(* lets two results be compared.                                           *)
(*                                                                         *)
(* Numbers are exact rationals <<n, d>> in lowest terms with d > 0.  The   *)
(* code computes in IEEE doubles; on the inputs enumerated here the model  *)
(* states the values the formula denotes.                                  *)
(*                                                                         *)
(* Python distinguishes built-in floats from numpy scalars when a division *)
(* by zero happens: float/0 raises ZeroDivisionError, numpy.float64/0      *)
(* returns inf, -inf or nan (with a RuntimeWarning only).  The loop        *)
(* variable comes from np.arange and is a numpy.int64, so every value that *)
(* went through `** year` is a numpy.float64.                              *)
(***************************************************************************)
EXTENDS Integers, Sequences, FiniteSets, TLC

----------------------------------------------------------------------------
(* Bounds of the enumerated lifetimes and depreciation periods *)
MaxT == 2
MaxNd == 3

----------------------------------------------------------------------------
(* Exact rational arithmetic *)
Abs(x) == IF x < 0 THEN -x ELSE x

RECURSIVE GCD(_, _)
GCD(a, b) == IF b = 0 THEN a ELSE GCD(b, a % b)

Norm(n, d) ==
    LET s == IF d < 0 THEN -1 ELSE 1
        g == GCD(Abs(n), Abs(d))
    IN  << (s * n) \div g, (s * d) \div g >>

R(n) == << n, 1 >>
Zero == R(0)
One == R(1)
RAdd(a, b) == Norm(a[1] * b[2] + b[1] * a[2], a[2] * b[2])
RSub(a, b) == Norm(a[1] * b[2] - b[1] * a[2], a[2] * b[2])
RMul(a, b) == Norm(a[1] * b[1], a[2] * b[2])
RDiv(a, b) == Norm(a[1] * b[2], a[2] * b[1])
RLt(a, b) == a[1] * b[2] < b[1] * a[2]
RLe(a, b) == a[1] * b[2] <= b[1] * a[2]

RECURSIVE RPow(_, _)
RPow(a, k) == IF k = 0 THEN One ELSE RMul(a, RPow(a, k - 1))

----------------------------------------------------------------------------
(* Values a Python expression can evaluate to: a finite number, or one of  *)
(* the non-finite doubles.                                                 *)
Fin(v) == [k |-> "fin", v |-> v]
Inf == [k |-> "inf", v |-> Zero]
NegInf == [k |-> "-inf", v |-> Zero]
NaN == [k |-> "nan", v |-> Zero]
ZeroDivisionError == [k |-> "ZeroDivisionError", v |-> Zero]
Unset == [k |-> "unset", v |-> Zero]

(* x / y in Python; np tells whether an operand is a numpy scalar *)
DivideNoCheck(x, y, np) ==
    IF y = Zero THEN Fin(Zero) ELSE Fin(RDiv(x, y))

DivideAlwaysRaise(x, y, np) ==
    IF y # Zero THEN Fin(RDiv(x, y)) ELSE ZeroDivisionError

Divide(x, y, np) ==
    IF y # Zero THEN Fin(RDiv(x, y))
    ELSE IF ~np THEN ZeroDivisionError
    ELSE IF RLt(Zero, x) THEN Inf
    ELSE IF RLt(x, Zero) THEN NegInf
    ELSE NaN

(* np.arange(1, T+1) *)
ArangeShort(t) == [i \in 1..(IF t - 1 > 0 THEN t - 1 ELSE 0) |-> i]

ArangeFromZero(t) == [i \in 1..(IF t + 1 > 0 THEN t + 1 ELSE 0) |-> i - 1]

Arange(t) == [i \in 1..(IF t > 0 THEN t ELSE 0) |-> i]

(* the percentage p as the fraction p/100. *)
Pct(p) == Norm(p, 100)

(* (1+econ.d/100.)**year *)
Discount(e, y) == RPow(RAdd(One, Pct(e.d)), y)

(* econ.opex*(1-econ.Tx/100.)*(1+econ.rom/100.)**year/(1+econ.d/100.)**year *)
OpexTerm(e, y) ==
    RDiv(RMul(RMul(R(e.opex), RSub(One, Pct(e.Tx))),
              RPow(RAdd(One, Pct(e.rom)), y)),
         Discount(e, y))

(* Dn*econ.Tx/100./(1+econ.d/100.)**year *)
ShieldTermNoTx(dn, e, y) == RDiv(dn, Discount(e, y))

ShieldTerm(dn, e, y) == RDiv(RMul(dn, Pct(e.Tx)), Discount(e, y))

(* Ef*(1-deg)**year/(1+econ.d/100.)**year *)
YieldTermNoDeg(ef, dg, e, y) == RDiv(R(ef), Discount(e, y))

YieldTermNoEf(ef, dg, e, y) ==
    RDiv(RPow(RSub(One, dg), y), Discount(e, y))

YieldTerm(ef, dg, e, y) ==
    RDiv(RMul(R(ef), RPow(RSub(One, dg), y)), Discount(e, y))

(* year<=Nd *)
ShieldAppliesStrict(y, nd) == y < nd

ShieldAppliesAlways(y, nd) == TRUE

ShieldApplies(y, nd) == y <= nd

----------------------------------------------------------------------------
(* Arguments *)
CapexSet == {0, 1, 2}
OpexSet == {0, 1}
TxSet == {0, 50, 100}
DSet == {-50, 0, 100}
RomSet == {0, 100}
DegSet == {Zero, Norm(1, 2), One}

EconSet == [capex : CapexSet, opex : OpexSet, Tx : TxSet, d : DSet,
            rom : RomSet, np : BOOLEAN]
EfSet == {0, 1, 2}
TSet == (-1)..MaxT
NdSet == (-1)..MaxNd

NoCall == [called |-> FALSE]

VARIABLES Ef, econ, T, deg, Nd,         \* the arguments of the running call
          Dn, lcoe_num, lcoe_den,       \* its locals
          years, year,                  \* np.arange(1,T+1) left to visit, loop variable
          np_num, np_den,               \* whether lcoe_num / lcoe_den is a numpy.float64
          shielded,                     \* years in which line 35 subtracted
          visited,                      \* years whose loop body was entered
          result,                       \* what the call returned or raised
          pc,                           \* the line about to execute
          prev                          \* the finished previous call, if any

args == << Ef, econ, T, deg, Nd >>
locals == << Dn, lcoe_num, lcoe_den, years, year, np_num, np_den >>
hist == << shielded, visited >>
vars == << Ef, econ, T, deg, Nd, Dn, lcoe_num, lcoe_den, years, year,
           np_num, np_den, shielded, visited, result, pc, prev >>

Entry ==
    /\ Dn = Unset
    /\ lcoe_num = Zero
    /\ lcoe_den = Zero
    /\ years = << >>
    /\ year = 0
    /\ np_num = FALSE
    /\ np_den = FALSE
    /\ shielded = {}
    /\ visited = << >>
    /\ result = Unset
    /\ pc = "L26"

Init ==
    /\ Ef \in EfSet
    /\ econ \in EconSet
    /\ T \in TSet
    /\ deg \in DegSet
    /\ Nd \in NdSet
    /\ prev = NoCall
    /\ Entry

(* line 26: Dn=econ.capex/Nd *)
Line26 ==
    /\ pc = "L26"
    /\ LET q == Divide(R(econ.capex), R(Nd), econ.np)
       IN  IF q = ZeroDivisionError
           THEN /\ result' = ZeroDivisionError
                /\ pc' = "raised"
                /\ Dn' = Dn
           ELSE /\ Dn' = q
                /\ pc' = "L28"
                /\ result' = result
    /\ UNCHANGED << args, lcoe_num, lcoe_den, years, year, np_num, np_den,
                    hist, prev >>

(* lines 28-29: lcoe_num=econ.capex; lcoe_den=0. *)
Line28 ==
    /\ pc = "L28"
    /\ lcoe_num' = R(econ.capex)
    /\ np_num' = econ.np
    /\ lcoe_den' = Zero
    /\ np_den' = FALSE
    /\ years' = Arange(T)
    /\ pc' = "L31"
    /\ UNCHANGED << args, Dn, year, hist, result, prev >>

(* line 31: for year in np.arange(1,T+1) *)
Line31 ==
    /\ pc = "L31"
    /\ IF years = << >>
       THEN /\ pc' = "L39"
            /\ UNCHANGED << years, year, visited >>
       ELSE /\ year' = Head(years)
            /\ years' = Tail(years)
            /\ visited' = Append(visited, Head(years))
            /\ pc' = "L33"
    /\ UNCHANGED << args, Dn, lcoe_num, lcoe_den, np_num, np_den, shielded,
                    result, prev >>

(* line 33: lcoe_num+=opex term *)
Line33 ==
    /\ pc = "L33"
    /\ lcoe_num' = RAdd(lcoe_num, OpexTerm(econ, year))
    /\ np_num' = TRUE
    /\ pc' = "L35"
    /\ UNCHANGED << args, Dn, lcoe_den, years, year, np_den, hist, result,
                    prev >>

(* line 35: if year<=Nd: lcoe_num-=Dn*econ.Tx/100./(1+econ.d/100.)**year *)
Line35 ==
    /\ pc = "L35"
    /\ IF ShieldApplies(year, Nd)
       THEN /\ lcoe_num' = RSub(lcoe_num, ShieldTerm(Dn.v, econ, year))
            /\ shielded' = shielded \cup {year}
       ELSE UNCHANGED << lcoe_num, shielded >>
    /\ pc' = "L37"
    /\ UNCHANGED << args, Dn, lcoe_den, years, year, np_num, np_den,
                    visited, result, prev >>

(* line 37: lcoe_den+=yield term *)
Line37Typo ==
    /\ pc = "L37"
    /\ lcoe_num' = RAdd(lcoe_num, YieldTerm(Ef, deg, econ, year))
    /\ np_den' = TRUE
    /\ pc' = "L31"
    /\ UNCHANGED << args, Dn, lcoe_den, years, year, np_num, hist, result,
                    prev >>

Line37 ==
    /\ pc = "L37"
    /\ lcoe_den' = RAdd(lcoe_den, YieldTerm(Ef, deg, econ, year))
    /\ np_den' = TRUE
    /\ pc' = "L31"
    /\ UNCHANGED << args, Dn, lcoe_num, years, year, np_num, hist, result,
                    prev >>

(* line 39: return lcoe_num/lcoe_den *)
Line39 ==
    /\ pc = "L39"
    /\ LET q == Divide(lcoe_num, lcoe_den, np_num \/ np_den)
       IN  /\ result' = q
           /\ pc' = IF q = ZeroDivisionError THEN "raised" ELSE "returned"
    /\ UNCHANGED << args, locals, hist, prev >>

Finished == pc \in {"returned", "raised"}

(* what is kept of a finished call *)
Record ==
    [called |-> TRUE, Ef |-> Ef, econ |-> econ, T |-> T, deg |-> deg,
     Nd |-> Nd, lcoe_num |-> lcoe_num, lcoe_den |-> lcoe_den,
     shielded |-> shielded, visited |-> visited, result |-> result,
     pc |-> pc]

(* A second call of calculate_lcoe, one argument changed *)
Recall ==
    /\ Finished
    /\ prev = NoCall
    /\ prev' = Record
    /\ Dn' = Unset
    /\ lcoe_num' = Zero
    /\ lcoe_den' = Zero
    /\ years' = << >>
    /\ year' = 0
    /\ np_num' = FALSE
    /\ np_den' = FALSE
    /\ shielded' = {}
    /\ visited' = << >>
    /\ result' = Unset
    /\ pc' = "L26"

CallCapex ==
    /\ Recall
    /\ \E c \in CapexSet :
          /\ c # econ.capex
          /\ econ' = [econ EXCEPT !.capex = c]
    /\ UNCHANGED << Ef, T, deg, Nd >>

CallEf ==
    /\ Recall
    /\ \E e \in EfSet : e # Ef /\ Ef' = e
    /\ UNCHANGED << econ, T, deg, Nd >>

CallDeg ==
    /\ Recall
    /\ \E g \in DegSet : g # deg /\ deg' = g
    /\ UNCHANGED << Ef, econ, T, Nd >>

CallNd ==
    /\ Recall
    /\ \E n \in NdSet : n # Nd /\ Nd' = n
    /\ UNCHANGED << Ef, econ, T, deg >>

Next ==
    \/ Line26
    \/ Line28
    \/ Line31
    \/ Line33
    \/ Line35
    \/ Line37
    \/ Line39
    \/ CallCapex
    \/ CallEf
    \/ CallDeg
    \/ CallNd

Spec == Init /\ [][Next]_vars

----------------------------------------------------------------------------
(* Vocabulary of the properties *)

(* strict order on results: -inf < every finite number < inf; nan and an  *)
(* exception compare with nothing                                         *)
Rank(x) == IF x.k = "-inf" THEN 0 ELSE IF x.k = "fin" THEN 1 ELSE 2
Comparable(x) == x.k \in {"-inf", "fin", "inf"}
VLt(x, y) ==
    /\ Comparable(x)
    /\ Comparable(y)
    /\ \/ Rank(x) < Rank(y)
       \/ x.k = "fin" /\ y.k = "fin" /\ RLt(x.v, y.v)

Cur == Record
Returned(c) == c.called /\ c.pc = "returned"

(* the two finished calls of a behaviour, in both orders *)
Pairs == IF prev.called /\ Finished THEN {<< prev, Cur >>, << Cur, prev >>}
         ELSE {}

(* a call on a generating plant (positive yield, tax rate in 0..100,      *)
(* discount rate >= 0) that returned a finite number                     *)
Plant(c) ==
    /\ Returned(c) /\ c.result.k = "fin"
    /\ c.Ef > 0 /\ c.T >= 1 /\ c.econ.Tx \in 0..100 /\ c.econ.d >= 0

OnlyCapex(a, b) ==
    /\ a.Ef = b.Ef /\ a.T = b.T /\ a.deg = b.deg /\ a.Nd = b.Nd
    /\ a.econ = [b.econ EXCEPT !.capex = a.econ.capex]
OnlyEf(a, b) ==
    a.econ = b.econ /\ a.T = b.T /\ a.deg = b.deg /\ a.Nd = b.Nd
OnlyDeg(a, b) ==
    a.econ = b.econ /\ a.T = b.T /\ a.Ef = b.Ef /\ a.Nd = b.Nd
OnlyNd(a, b) ==
    a.econ = b.econ /\ a.T = b.T /\ a.Ef = b.Ef /\ a.deg = b.deg

Min(a, b) == IF a < b THEN a ELSE b

(* The sums of the LCOE formula, written from the formula itself *)
Growth(r) == Norm(100 + r, 100)

RECURSIVE SumOpex(_, _)
SumOpex(e, n) ==
    IF n <= 0 THEN Zero
    ELSE RAdd(SumOpex(e, n - 1),
              RMul(Norm(e.opex * (100 - e.Tx), 100),
                   RPow(RDiv(Growth(e.rom), Growth(e.d)), n)))

RECURSIVE SumShield(_, _, _)
SumShield(e, nd, n) ==
    IF n <= 0 THEN Zero
    ELSE RAdd(SumShield(e, nd, n - 1),
              RMul(Norm(e.capex * e.Tx, nd * 100),
                   RPow(RDiv(One, Growth(e.d)), n)))

RECURSIVE SumYield(_, _, _, _)
SumYield(ef, dg, e, n) ==
    IF n <= 0 THEN Zero
    ELSE RAdd(SumYield(ef, dg, e, n - 1),
              RMul(R(ef), RPow(RDiv(RSub(One, dg), Growth(e.d)), n)))

FormulaNum == RSub(RAdd(R(econ.capex), SumOpex(econ, T)),
                   SumShield(econ, Nd, Min(T, Nd)))
FormulaDen == SumYield(Ef, deg, econ, T)

----------------------------------------------------------------------------
C2_Original == (Finished /\ Ef = 0 /\ T >= 1 /\ Nd >= 1) => pc = "raised"

(* C2 amended: with annualYield = 0 the call never returns a finite        *)
(* number, but it need not raise: once the loop has run (T >= 1 and line   *)
(* 26 did not raise) the division is a numpy division and the call returns *)
(* inf, -inf or nan.                                                       *)
C2_Amended ==
    (Finished /\ Ef = 0) =>
        /\ lcoe_den = Zero
        /\ result.k # "fin"
        /\ visited # << >> => (pc = "returned" /\ result.k \in {"inf", "-inf", "nan"})

C2_Witness ==
    pc = "returned" /\ Ef = 0 /\ T >= 1 /\ ~econ.np /\ result = Inf

(* C3 as stated: for every depreciationYears <= 0 the call ends in the     *)
(* division-by-zero error of line 26 (here on calls with a built-in capex, *)
(* T >= 1 and a positive yield).                                           *)
C3_Original ==
    (Finished /\ Nd <= 0 /\ ~econ.np /\ T >= 1 /\ Ef > 0 /\ deg # One) =>
        (pc = "raised" /\ result = ZeroDivisionError /\ Dn = Unset)

(* C3 amended: only depreciationYears = 0 divides by zero, and it raises   *)
(* only when capex is a built-in number; for a negative depreciationYears  *)
(* (and for 0 with a numpy capex) Dn is computed, the tax shield is never  *)
(* subtracted and the call goes on to the loop.                            *)
C3_Amended ==
    (pc # "L26" /\ Nd <= 0) =>
        IF Nd = 0 /\ ~econ.np
        THEN pc = "raised" /\ result = ZeroDivisionError /\ Dn = Unset
        ELSE /\ Dn.k \in {"fin", "inf", "nan"}
             /\ Nd < 0 => (Dn.k = "fin" /\ RLe(Dn.v, Zero))
             /\ shielded = {}
             /\ Finished => Len(visited) = Len(Arange(T))

C3_Witness ==
    pc = "raised" /\ Nd = 0 /\ ~econ.np /\ econ.capex > 0 /\ T >= 1
    /\ Dn = Unset /\ visited = << >>

(* C4 as stated: of two calls differing only in capex, the one with the    *)
(* larger capex has the strictly larger numerator, the same denominator    *)
(* and the strictly larger result (here on calls that return a finite      *)
(* number, with a positive yield and a tax rate in 0..100).                *)
C4_Original ==
    \A p \in Pairs :
        (/\ OnlyCapex(p[1], p[2]) /\ p[1].econ.capex < p[2].econ.capex
         /\ Plant(p[1]) /\ Plant(p[2])) =>
            /\ RLt(p[1].lcoe_num, p[2].lcoe_num)
            /\ p[1].lcoe_den = p[2].lcoe_den
            /\ VLt(p[1].result, p[2].result)

(* C4 amended: of two returning calls differing only in capex, with        *)
(* 0 <= taxRate < 100 and discountRate >= 0, the one with the larger capex *)
(* has the strictly larger numerator and the same denominator, and, when   *)
(* that denominator is positive, the strictly larger result.               *)
C4_Amended ==
    \A p \in Pairs :
        (/\ OnlyCapex(p[1], p[2]) /\ p[1].econ.capex < p[2].econ.capex
         /\ Returned(p[1]) /\ Returned(p[2])
         /\ 0 <= p[1].econ.Tx /\ p[1].econ.Tx < 100 /\ p[1].econ.d >= 0) =>
            /\ RLt(p[1].lcoe_num, p[2].lcoe_num)
            /\ p[1].lcoe_den = p[2].lcoe_den
            /\ RLt(Zero, p[1].lcoe_den) => VLt(p[1].result, p[2].result)

C4_Witness ==
    \E p \in Pairs :
        /\ OnlyCapex(p[1], p[2]) /\ p[1].econ.capex < p[2].econ.capex
        /\ Returned(p[1]) /\ Returned(p[2])
        /\ p[1].econ.Tx = 50 /\ p[1].econ.d = 0 /\ p[1].T >= 2
        /\ p[1].Nd >= 1 /\ p[1].Nd <= p[1].T
        /\ RLt(Zero, p[1].lcoe_den)
        /\ p[1].result.k = "fin" /\ p[2].result.k = "fin"

(* C5 as stated: of two calls differing only in annualYield, the one with  *)
(* the larger annualYield returns the strictly smaller result (here on     *)
(* calls that return a finite number, with positive yields).               *)
C5_Original ==
    \A p \in Pairs :
        (/\ OnlyEf(p[1], p[2]) /\ p[1].Ef < p[2].Ef
         /\ Plant(p[1]) /\ Plant(p[2])) =>
            VLt(p[2].result, p[1].result)

(* C5 amended: of two returning calls differing only in annualYield, both  *)
(* yields >= 0, the numerator is the same, and when it is positive and the *)
(* denominator of the larger-yield call is positive, the larger-yield call *)
(* returns the strictly smaller result.                                    *)
C5_Amended ==
    \A p \in Pairs :
        (/\ OnlyEf(p[1], p[2]) /\ 0 <= p[1].Ef /\ p[1].Ef < p[2].Ef
         /\ Returned(p[1]) /\ Returned(p[2])) =>
            /\ p[1].lcoe_num = p[2].lcoe_num
            /\ (RLt(Zero, p[2].lcoe_num) /\ RLt(Zero, p[2].lcoe_den)) =>
                  VLt(p[2].result, p[1].result)

C5_Witness ==
    \E p \in Pairs :
        /\ OnlyEf(p[1], p[2]) /\ 0 < p[1].Ef /\ p[1].Ef < p[2].Ef
        /\ Returned(p[1]) /\ Returned(p[2])
        /\ RLt(Zero, p[2].lcoe_num) /\ RLt(Zero, p[2].lcoe_den)
        /\ p[1].T >= 2
        /\ p[1].result.k = "fin" /\ p[2].result.k = "fin"

(* C6 as stated: the tax shield is never subtracted in a year >            *)
(* depreciationYears, and for capex > 0 and taxRate > 0 the call with      *)
(* depreciationYears = 0 returns a strictly larger result than the call    *)
(* with depreciationYears = lifetimeYears (here when the latter returns a  *)
(* finite number for a positive yield).                                    *)
C6_Original ==
    /\ \A y \in shielded : y <= Nd
    /\ \A p \in Pairs :
        (/\ OnlyNd(p[1], p[2]) /\ p[1].Nd = 0 /\ p[2].Nd = p[2].T
         /\ Plant(p[2])
         /\ p[1].econ.capex > 0 /\ p[1].econ.Tx > 0) =>
            /\ Returned(p[1]) /\ Returned(p[2])
            /\ VLt(p[2].result, p[1].result)

(* C6 amended: the tax shield is never subtracted in a year >              *)
(* depreciationYears; for capex > 0 and taxRate > 0 the call with          *)
(* depreciationYears = 0 raises ZeroDivisionError at line 26 when capex is *)
(* a built-in number, and when capex is a numpy scalar it returns, and,    *)
(* the denominator being positive, returns a strictly larger result than   *)
(* the call with depreciationYears = lifetimeYears.                        *)
C6_Amended ==
    /\ \A y \in shielded : y <= Nd
    /\ \A p \in Pairs :
        (/\ OnlyNd(p[1], p[2]) /\ p[1].Nd = 0 /\ p[2].Nd = p[2].T
         /\ p[2].T >= 1
         /\ p[1].econ.capex > 0 /\ p[1].econ.Tx > 0) =>
            IF ~p[1].econ.np
            THEN p[1].pc = "raised" /\ p[1].visited = << >>
            ELSE /\ Returned(p[1]) /\ Returned(p[2])
                 /\ p[1].shielded = {}
                 /\ p[2].shielded = 1..p[2].T
                 /\ p[1].lcoe_den = p[2].lcoe_den
                 /\ RLt(Zero, p[1].lcoe_den) =>
                       VLt(p[2].result, p[1].result)

C6_Witness ==
    \E p \in Pairs :
        /\ OnlyNd(p[1], p[2]) /\ p[1].Nd = 0 /\ p[2].Nd = p[2].T
        /\ p[2].T >= 2
        /\ p[1].econ.capex > 0 /\ p[1].econ.Tx = 50 /\ p[1].econ.np
        /\ Len(p[1].visited) = p[1].T /\ p[1].shielded = {}
        /\ RLt(Zero, p[1].lcoe_den)
        /\ p[1].result.k = "fin" /\ p[2].result.k = "fin"

(* C7 as stated: of two calls differing only in degradationRate, the one   *)
(* with the larger rate has the strictly smaller denominator and the       *)
(* strictly larger result (here on calls that return a finite number,     *)
(* with a positive yield).                                                 *)
C7_Original ==
    \A p \in Pairs :
        (/\ OnlyDeg(p[1], p[2]) /\ RLt(p[1].deg, p[2].deg)
         /\ Plant(p[1]) /\ Plant(p[2])) =>
            /\ RLt(p[2].lcoe_den, p[1].lcoe_den)
            /\ VLt(p[1].result, p[2].result)

(* C7 amended: of two returning calls differing only in degradationRate,   *)
(* both rates in [0,1], with annualYield > 0 and lifetimeYears >= 1, the   *)
(* one with the larger rate has the strictly smaller denominator and the   *)
(* same numerator, and, when that numerator is positive, the strictly      *)
(* larger result.                                                          *)
C7_Amended ==
    \A p \in Pairs :
        (/\ OnlyDeg(p[1], p[2]) /\ RLt(p[1].deg, p[2].deg)
         /\ RLe(Zero, p[1].deg) /\ RLe(p[2].deg, One)
         /\ Returned(p[1]) /\ Returned(p[2])
         /\ p[1].Ef > 0 /\ p[1].T >= 1) =>
            /\ RLt(p[2].lcoe_den, p[1].lcoe_den)
            /\ p[1].lcoe_num = p[2].lcoe_num
            /\ RLt(Zero, p[1].lcoe_num) => VLt(p[1].result, p[2].result)

C7_Witness ==
    \E p \in Pairs :
        /\ OnlyDeg(p[1], p[2]) /\ p[1].deg = Zero /\ p[2].deg = Norm(1, 2)
        /\ Returned(p[1]) /\ Returned(p[2])
        /\ p[1].Ef > 0 /\ p[1].T >= 2 /\ RLt(Zero, p[1].lcoe_num)
        /\ p[1].result.k = "fin" /\ p[2].result.k = "fin"

C9_Order ==
    [][ /\ pc = "L33" =>
              /\ pc' = "L35"
              /\ lcoe_num' = RAdd(lcoe_num, OpexTerm(econ, year))
              /\ lcoe_den' = lcoe_den
        /\ pc = "L35" =>
              /\ pc' = "L37"
              /\ lcoe_num' = IF year <= Nd
                             THEN RSub(lcoe_num, ShieldTerm(Dn.v, econ, year))
                             ELSE lcoe_num
              /\ lcoe_den' = lcoe_den
        /\ pc = "L37" =>
              /\ pc' \in {"L31"}
              /\ lcoe_num' = lcoe_num
              /\ lcoe_den' = RAdd(lcoe_den, YieldTerm(Ef, deg, econ, year))
        /\ pc' = "L33" =>
              /\ pc = "L31"
              /\ year' = Len(visited) + 1
              /\ year' <= T
              /\ visited # << >> => year' = year + 1
      ]_vars

C9_Witness ==
    /\ pc = "L31" /\ years = << >> /\ year = T /\ T >= 2
    /\ shielded = {1} /\ econ.opex > 0 /\ econ.Tx = 50 /\ econ.capex > 0
    /\ Ef > 0 /\ lcoe_den # Zero

(* C10 as stated: with lifetimeYears <= 0 and depreciationYears >= 1 the   *)
(* loop body never runs, the denominator stays 0, the numerator stays      *)
(* capex, and the call ends in an error instead of returning a number      *)
(* (here for capex > 0).                                                   *)
C10_Original ==
    (Finished /\ T <= 0 /\ Nd >= 1 /\ econ.capex > 0) =>
        /\ visited = << >>
        /\ lcoe_den = Zero
        /\ lcoe_num = R(econ.capex)
        /\ pc = "raised"

(* C10 amended: with lifetimeYears <= 0 and depreciationYears >= 1 the     *)
(* loop body never runs, the denominator stays 0 and the numerator stays   *)
(* capex; the final division by zero raises ZeroDivisionError when capex   *)
(* is a built-in number, and returns inf (capex > 0) or nan (capex = 0)    *)
(* when capex is a numpy scalar.                                           *)
C10_Amended ==
    (Finished /\ T <= 0 /\ Nd >= 1) =>
        /\ visited = << >>
        /\ lcoe_den = Zero
        /\ lcoe_num = R(econ.capex)
        /\ IF econ.np
           THEN pc = "returned"
                /\ result = (IF econ.capex > 0 THEN Inf ELSE NaN)
           ELSE pc = "raised" /\ result = ZeroDivisionError

C10_Witness ==
    pc = "raised" /\ T <= 0 /\ Nd >= 1 /\ ~econ.np /\ econ.capex > 0
    /\ Ef > 0 /\ Dn.k = "fin" /\ lcoe_num = R(econ.capex)

====
